---------------------------- MODULE Spec2Model ----------------------------
(***************************************************************************)
(* A model of the notebook "Part 3 - Training Neural Networks"             *)
(* (src/intro-to-pytorch/Part 3 - Training Neural Networks                 *)
(* (Exercises).ipynb, the HEAD side of its cells).                         *)
(*                                                                         *)
(* The notebook is a linear script over the kernel's namespace.  The state *)
(* is that namespace (model, criterion, optimizer, images, labels, loss,   *)
(* x, ...) together with the objects the names refer to (the models on the *)
(* heap, with the .grad of every parameter).  One action models one        *)
(* statement (or one cell, where a cell is a single step).                 *)
(*                                                                         *)
(* Numbers.  The network is scaled down (Sizes) and computes over the      *)
(* integers.  A logit z stands for the real number z * ln 2, so that       *)
(* exp(logit) = 2^z is exact; a log-probability is kept as the rational    *)
(* <<n, d>> whose logarithm it is.  The loss -1/n * SUM ln p_i is kept as  *)
(* [P |-> PROD p_i, n |-> n].  On this domain softmax, log-softmax, NLL    *)
(* and cross-entropy are computed exactly.                                 *)
(*                                                                         *)
(* Gradients of the parameters are kept as sums of terms: a term names     *)
(* the forward pass (weights and batch) whose loss was differentiated.     *)
(* zero_grad makes the sum empty, backward adds a term.                    *)
(***************************************************************************)
EXTENDS Integers, Sequences, FiniteSets, Bags

(***************************************************************************)
(* Bounds of the model.                                                    *)
(***************************************************************************)
\* size of the training set (60000 images in MNIST)
NumSamples == 3
\* batch_size of the DataLoader (64 in the notebook, line 97)
BatchSize == 2
\* number of distinct outcomes of a random initialisation
NumInits == 2
\* backward passes taken in the repeated single-step cell
MaxPasses == 3

(***************************************************************************)
(* Program constants.                                                      *)
(***************************************************************************)
epochs == 5

\* The layer widths 784, 128, 64, 10 of the notebook, scaled down.
Sizes == <<2, 1, 1, 2>>
InDim == Sizes[1]
NumClasses == Sizes[4]

None == <<>>
Some(v) == <<v>>

(***************************************************************************)
(* Arithmetic helpers.                                                     *)
(***************************************************************************)
RECURSIVE GCD(_, _)
GCD(a, b) == IF b = 0 THEN a ELSE GCD(b, a % b)

RECURSIVE Pow2(_)
Pow2(n) == IF n = 0 THEN 1 ELSE 2 * Pow2(n - 1)

Rat(n, d) == LET g == GCD(n, d) IN <<n \div g, d \div g>>
RatMul(p, q) == Rat(p[1] * q[1], p[2] * q[2])
RatDiv(p, q) == Rat(p[1] * q[2], p[2] * q[1])
RatAdd(p, q) == Rat(p[1] * q[2] + q[1] * p[2], p[2] * q[2])

RECURSIVE SumTo(_, _)
SumTo(f, n) == IF n = 0 THEN 0 ELSE f[n] + SumTo(f, n - 1)

RECURSIVE RatSumTo(_, _)
RatSumTo(f, n) == IF n = 0 THEN <<0, 1>> ELSE RatAdd(f[n], RatSumTo(f, n - 1))

RECURSIVE RatProdTo(_, _)
RatProdTo(f, n) == IF n = 0 THEN <<1, 1>> ELSE RatMul(f[n], RatProdTo(f, n - 1))

\* exp of the logit z: 2^z
Exp2(z) == IF z >= 0 THEN <<Pow2(z), 1>> ELSE <<1, Pow2(0 - z)>>

(***************************************************************************)
(* The training set: trainset = datasets.MNIST(...), normalised to         *)
(* [-1, 1].  Sample s has the pixels Pixels(s) and the label Label(s).     *)
(***************************************************************************)
Samples == 1..NumSamples
Pixels(s) == [i \in 1..InDim |-> ((s + i) % 3) - 1]
Label(s) == (s % NumClasses) + 1

\* len(trainloader): the last batch may be short
LenTrainloader == (NumSamples + BatchSize - 1) \div BatchSize

Min(a, b) == IF a < b THEN a ELSE b

\* The orders in which a shuffling DataLoader can yield the samples, up to
\* the order of the samples within one batch (kept ascending here): every
\* split of the training set into consecutive batches is there.
SameBatch(a, b) == (a - 1) \div BatchSize = (b - 1) \div BatchSize
Perms ==
    {p \in [1..NumSamples -> Samples] :
        /\ \A a, b \in 1..NumSamples : a # b => p[a] # p[b]
        /\ \A a, b \in 1..NumSamples : (a < b /\ SameBatch(a, b)) => p[a] < p[b]}

Take(s, n) == SubSeq(s, 1, Min(n, Len(s)))
Drop(s, n) == SubSeq(s, Min(n, Len(s)) + 1, Len(s))

\* A batch as the loader yields it: images of shape (n, 1, 28, 28), here
\* (n, 1, InDim), and the labels.
RawImages(ids) == [shape |-> <<Len(ids), 1, InDim>>, data |-> [r \in 1..Len(ids) |-> Pixels(ids[r])], ids |-> ids]
LabelsOf(ids) == [r \in 1..Len(ids) |-> Label(ids[r])]

\* images.view(images.shape[0], -1)
Flatten(im) == [im EXCEPT !.shape = <<im.shape[1], InDim>>]

\* images.resize_(64, 784)
Resize(im, n, d) == [im EXCEPT !.shape = <<n, d>>]

(***************************************************************************)
(* nn.Sequential and its layers.                                           *)
(***************************************************************************)
LinearL(i, o) == [kind |-> "Linear", in |-> i, out |-> o, dim |-> 0]
ReLUL == [kind |-> "ReLU", in |-> 0, out |-> 0, dim |-> 0]
LogSoftmaxL(d) == [kind |-> "LogSoftmax", in |-> 0, out |-> 0, dim |-> d]

\* nn.Sequential(nn.Linear(784, 128), nn.ReLU(), nn.Linear(128, 64),
\*               nn.ReLU(), nn.Linear(64, 10))
LogitLayers == <<LinearL(Sizes[1], Sizes[2]), ReLUL, LinearL(Sizes[2], Sizes[3]), ReLUL, LinearL(Sizes[3], Sizes[4])>>

\* A faulty variant: the log-softmax taken down the rows of the batch (dim=0).
LogProbLayersDim0 == Append(LogitLayers, LogSoftmaxL(0))

\* the same stack followed by nn.LogSoftmax(dim=1)
LogProbLayers == Append(LogitLayers, LogSoftmaxL(1))

\* The parameters a random initialisation can produce: outcome k of NumInits.
InitParams(layers, k) ==
    [l \in {j \in 1..Len(layers) : layers[j].kind = "Linear"} |->
        [weight |-> [o \in 1..layers[l].out |-> [i \in 1..layers[l].in |-> ((k + 1 + l + o + 2 * i) % 3) - 1]],
         bias |-> [o \in 1..layers[l].out |-> (k + 1 + l + o) % 2]]]

ParamNames(layers) == {<<l, n>> : l \in {j \in 1..Len(layers) : layers[j].kind = "Linear"}, n \in {"weight", "bias"}}

ShapeOf(layers, p) == IF p[2] = "weight" THEN <<layers[p[1]].out, layers[p[1]].in>> ELSE <<layers[p[1]].out>>

\* A faulty variant: a model built with zero gradients in place of none.
NewModelZeroGrad(layers, k) ==
    [layers |-> layers,
     params |-> InitParams(layers, k),
     grad |-> [p \in ParamNames(layers) |-> Some([shape |-> ShapeOf(layers, p), terms |-> EmptyBag])]]

\* A freshly built model: every parameter requires grad, and has no .grad.
NewModel(layers, k) ==
    [layers |-> layers,
     params |-> InitParams(layers, k),
     grad |-> [p \in ParamNames(layers) |-> None]]

(***************************************************************************)
(* Forward pass.  Tensors of the Linear/ReLU part are integer matrices     *)
(* (sequences of rows).                                                    *)
(***************************************************************************)
Linear(X, P) ==
    [r \in 1..Len(X) |->
        [o \in 1..Len(P.weight) |->
            SumTo([i \in 1..Len(X[r]) |-> X[r][i] * P.weight[o][i]], Len(X[r])) + P.bias[o]]]

ReLU(X) == [r \in 1..Len(X) |-> [i \in 1..Len(X[r]) |-> IF X[r][i] > 0 THEN X[r][i] ELSE 0]]

\* An integer matrix of logits as a matrix of the rationals 2^z.
Lift(Z) == [r \in 1..Len(Z) |-> [j \in 1..Len(Z[r]) |-> Exp2(Z[r][j])]]

RowSum(T, r) == RatSumTo(T[r], Len(T[r]))
ColSum(T, j) == RatSumTo([r \in 1..Len(T) |-> T[r][j]], Len(T))

\* exp of softmax over dimension dim (0: down the rows, 1: across the columns)
Normalize(T, dim) ==
    [r \in 1..Len(T) |-> [j \in 1..Len(T[r]) |->
        RatDiv(T[r][j], IF dim = 1 THEN RowSum(T, r) ELSE ColSum(T, j))]]

\* The layers 1..n of a Sequential applied to the integer matrix X.
RECURSIVE Stack(_, _, _, _)
Stack(layers, params, X, n) ==
    IF n = 0 THEN X
    ELSE LET A == Stack(layers, params, X, n - 1)
         IN  CASE layers[n].kind = "Linear" -> Linear(A, params[n])
               [] layers[n].kind = "ReLU" -> ReLU(A)
               [] OTHER -> A

NumStack(layers) == IF layers[Len(layers)].kind = "LogSoftmax" THEN Len(layers) - 1 ELSE Len(layers)

\* The raw scores of the last Linear layer, as log-domain values.
RawLogits(m, im) == Lift(Stack(m.layers, m.params, im.data, NumStack(m.layers)))

\* model(images), model.forward(images): every layer of the Sequential in
\* order.  The value is log-domain: entry <<n, d>> stands for ln(n/d).
ForwardValue(m, im) ==
    LET last == m.layers[Len(m.layers)]
    IN  IF last.kind = "LogSoftmax" THEN Normalize(RawLogits(m, im), last.dim)
        ELSE RawLogits(m, im)

\* F.softmax(t, dim) of a log-domain tensor: probabilities <<n, d>> = n/d.
Softmax(T, dim) == Normalize(T, dim)

(***************************************************************************)
(* Loss criteria.  A loss value [P |-> <<n, d>>, n |-> k] stands for       *)
(* -1/k * ln(n/d): the mean over the k rows of the batch.                  *)
(***************************************************************************)
\* nn.NLLLoss(): minus the mean of the log-probability of each row's label.
NLLLoss(T, labels) ==
    [P |-> RatProdTo([r \in 1..Len(T) |-> T[r][labels[r]]], Len(T)), n |-> Len(T)]

\* nn.CrossEntropyLoss(): the mean over the rows of
\*     -x[label] + log(SUM_j exp(x[j])),
\* computed from the raw scores.
CrossEntropyLoss(T, labels) ==
    LET rowloss == [r \in 1..Len(T) |-> RatDiv(RowSum(T, r), T[r][labels[r]])]
    IN  [P |-> RatDiv(<<1, 1>>, RatProdTo(rowloss, Len(T))), n |-> Len(T)]

Criterion(name, T, labels) ==
    IF name = "CrossEntropyLoss" THEN CrossEntropyLoss(T, labels) ELSE NLLLoss(T, labels)

(***************************************************************************)
(* Autograd.  The .grad of a parameter is None, or a tensor of the         *)
(* parameter's shape holding a sum of terms; a term is the forward pass    *)
(* (the parameters it read, the batch) whose loss was differentiated.      *)
(***************************************************************************)
\* A faulty variant: backward() overwrites the .grad with the gradient of its pass.
OverwriteGrad(g, shape, term) == Some([shape |-> shape, terms |-> SetToBag({term})])

\* What backward() does to a .grad: it sets an empty one, and adds to a
\* present one ("PyTorch by default accumulates gradients").
AccumulateGrad(g, shape, term) ==
    IF g = None THEN Some([shape |-> shape, terms |-> SetToBag({term})])
    ELSE Some([shape |-> shape, terms |-> g[1].terms (+) SetToBag({term})])

\* loss.backward(): every parameter of the model the loss was computed
\* with takes part in the graph and gets the loss's gradient.
BackwardModel(m, term) ==
    [m EXCEPT !.grad = [p \in DOMAIN m.grad |-> AccumulateGrad(m.grad[p], ShapeOf(m.layers, p), term)]]

\* A faulty variant: zero_grad() leaves the gradients as they are.
ZeroGradNothing(m) == m

\* optimizer.zero_grad(): a present .grad is zeroed in place, an absent one
\* stays None.
ZeroGradModel(m) ==
    [m EXCEPT !.grad = [p \in DOMAIN m.grad |->
        IF m.grad[p] = None THEN None ELSE Some([m.grad[p][1] EXCEPT !.terms = EmptyBag])]]

\* Whether optimizer.step() moves the parameters: SGD skips a parameter
\* whose .grad is None, and w - lr * 0 = w.
HasUpdate(m) == \E p \in DOMAIN m.grad : m.grad[p] # None /\ m.grad[p][1].terms # EmptyBag

\* optimizer.step() of optim.SGD: w <- w - lr * w.grad.  The value of the
\* new parameters is left open (any of the values InitParams ranges over);
\* the .grad is left as it is.
SGDStep(m, k) == IF HasUpdate(m) THEN [m EXCEPT !.params = InitParams(m.layers, k)] ELSE m

\* x = torch.randn(2,2, requires_grad=True): outcome k, with even entries so
\* that x/2 and the mean of x**2 are integers.
Randn(k) == [i \in 1..2 |-> [j \in 1..2 |-> 2 * (((k + i + 2 * j) % 3) - 1)]]

\* y = x**2
Square(X) == [i \in 1..Len(X) |-> [j \in 1..Len(X[i]) |-> X[i][j] * X[i][j]]]

\* z = y.mean()
Mean(Y) == SumTo([i \in 1..Len(Y) |-> SumTo(Y[i], Len(Y[i]))], Len(Y)) \div (Len(Y) * Len(Y[1]))

\* dz/dx for z = mean(x**2): 2 * x / n
MeanSquareGrad(X) == [i \in 1..Len(X) |-> [j \in 1..Len(X[i]) |-> (2 * X[i][j]) \div (Len(X) * Len(X[1]))]]

MatAdd(A, B) == [i \in 1..Len(A) |-> [j \in 1..Len(A[i]) |-> A[i][j] + B[i][j]]]

\* z.backward() on the leaf x
AccumulateLeaf(g, d) == IF g = None THEN Some(d) ELSE Some(MatAdd(g[1], d))

(***************************************************************************)
(* The state: the kernel's namespace and the heap of models.               *)
(***************************************************************************)
VARIABLES
    pc,            \* the statement to run next
    trainloader,   \* the DataLoader: [batch_size, shuffle], bound or not
    heap,          \* the models built so far; a model is named by its index
    model,         \* the name model: an index into heap, 0 when unbound
    criterion,     \* the name criterion: "", "CrossEntropyLoss" or "NLLLoss"
    optimizer,     \* the name optimizer: [params |-> model index, lr]
    images,        \* the names images, labels
    labels,
    logits,        \* the names logits, logps, output: tensors out of a model
    logps,
    output,
    loss,          \* the name loss
    x, y, z,       \* the tensors of the autograd cells
    e,             \* the loop variable of the epochs
    running_loss,  \* the losses added up in the current epoch
    it,            \* the iterator of "for images, labels in trainloader"
    img,           \* the names img and ps of the last cell
    ps,
    log,           \* history: the operations run on the current batch
    seen,          \* history: how often each sample was stepped on this epoch
    nsteps,        \* history: optimizer.step() calls of the training loop
    ce,            \* history: what the CrossEntropyLoss cell computed
    nbackward,     \* history: backward passes run on the models
    pending        \* history: per model, the passes whose loss was
                   \* differentiated since its gradients were last zeroed

vars == <<pc, trainloader, heap, model, criterion, optimizer, images, labels,
          logits, logps, output, loss, x, y, z, e, running_loss, it, img, ps,
          log, seen, nsteps, ce, nbackward, pending>>

NoImages == [shape |-> <<>>, data |-> <<>>, ids |-> <<>>]
\* the buffers of a graph that holds none (no grad, or freed by backward)
NoSaved == [params |-> <<>>, data |-> <<>>, ids |-> <<>>]
NoTerm == [params |-> <<>>, data |-> <<>>, labels |-> <<>>, ids |-> <<>>]
NoTensor == [val |-> <<>>, fn |-> 0, saved |-> NoSaved]
NoLoss == [val |-> <<>>, fn |-> 0, term |-> NoTerm, freed |-> FALSE]
\* what is left on the heap of a model that nothing refers to any more
Collected == [layers |-> <<>>, params |-> <<>>, grad |-> <<>>]
NoLeaf == [data |-> <<>>, grad |-> None, requires_grad |-> FALSE]
NoNode == [data |-> <<>>, fn |-> "", freed |-> FALSE]
NoOptimizer == [params |-> 0, lr |-> <<0, 1>>]
NoLoader == [batch_size |-> 0, shuffle |-> FALSE]

\* A fresh kernel: nothing is bound.
Fresh ==
    /\ trainloader = NoLoader /\ heap = <<>> /\ model = 0 /\ criterion = ""
    /\ optimizer = NoOptimizer /\ images = NoImages /\ labels = <<>>
    /\ logits = NoTensor /\ logps = NoTensor /\ output = NoTensor /\ loss = NoLoss
    /\ x = NoLeaf /\ y = NoNode /\ z = NoNode
    /\ e = -1 /\ running_loss = <<>> /\ it = <<>> /\ img = NoImages /\ ps = <<>>
    /\ log = <<>> /\ seen = [s \in Samples |-> 0] /\ nsteps = 0 /\ ce = <<>>
    /\ nbackward = 0 /\ pending = <<>>

Event(op, ids) == [op |-> op, ids |-> ids]

(***************************************************************************)
(* Statements.  Each is an action from one program point to the next.      *)
(***************************************************************************)
\* lines 86-97: imports, trainset, trainloader
LoadData ==
    /\ pc = "load_data"
    /\ trainloader' = [batch_size |-> BatchSize, shuffle |-> TRUE]
    /\ pc' = "loaded"
    /\ UNCHANGED <<heap, model, criterion, optimizer, images, labels, logits,
                   logps, output, loss, x, y, z, e, running_loss, it, img, ps,
                   log, seen, nsteps, ce>>
    /\ UNCHANGED <<nbackward, pending>>

\* The models something can still reach: through the names model and
\* optimizer, or through the graph of a tensor that backward has not freed.
\* Rebinding a name drops the others from the heap.
Live(h, roots) == [i \in 1..Len(h) |-> IF i \in roots THEN h[i] ELSE Collected]
LivePending(roots) == [i \in 1..Len(pending) |-> IF i \in roots THEN pending[i] ELSE <<>>]
GraphRoots == {t.fn : t \in {u \in {logits, logps, output} : u.saved # NoSaved}}
                  \cup (IF loss.freed THEN {} ELSE {loss.fn})

\* model = nn.Sequential(...); criterion = ...
BuildModel(from, to, layers, crit) ==
    /\ pc = from
    /\ \E k \in 1..NumInits :
        heap' = Append(Live(heap, GraphRoots \cup {optimizer.params}), NewModel(layers, k))
    /\ pending' = Append(LivePending(GraphRoots \cup {optimizer.params}), <<>>)
    /\ UNCHANGED nbackward
    /\ model' = Len(heap) + 1
    /\ criterion' = crit
    /\ pc' = to
    /\ UNCHANGED <<trainloader, optimizer, images, labels, logits, logps,
                   output, loss, x, y, z, e, running_loss, it, img, ps, log,
                   seen, nsteps, ce>>

\* images, labels = next(iter(trainloader)): the first batch of a fresh,
\* shuffled pass over the training set
FirstBatch(from, to) ==
    /\ pc = from
    /\ trainloader.batch_size > 0
    /\ \E p \in Perms :
        /\ images' = RawImages(Take(p, trainloader.batch_size))
        /\ labels' = LabelsOf(Take(p, trainloader.batch_size))
    /\ log' = <<>>
    /\ pc' = to
    /\ UNCHANGED <<trainloader, heap, model, criterion, optimizer, logits,
                   logps, output, loss, x, y, z, e, running_loss, it, img, ps,
                   seen, nsteps, ce>>
    /\ UNCHANGED <<nbackward, pending>>

\* images = images.view(images.shape[0], -1)
FlattenImages(from, to) ==
    /\ pc = from
    /\ images' = Flatten(images)
    /\ pc' = to
    /\ UNCHANGED <<trainloader, heap, model, criterion, optimizer, labels,
                   logits, logps, output, loss, x, y, z, e, running_loss, it,
                   img, ps, log, seen, nsteps, ce>>
    /\ UNCHANGED <<nbackward, pending>>

\* images.resize_(64, 784): the batch holds exactly that many numbers
ResizeImages(from, to) ==
    /\ pc = from
    /\ Len(images.data) = BatchSize
    /\ images' = Resize(images, BatchSize, InDim)
    /\ pc' = to
    /\ UNCHANGED <<trainloader, heap, model, criterion, optimizer, labels,
                   logits, logps, output, loss, x, y, z, e, running_loss, it,
                   img, ps, log, seen, nsteps, ce>>
    /\ UNCHANGED <<nbackward, pending>>

\* The tensor model(input) returns.  With gradients on it remembers the
\* model and what the pass read.
ForwardTensor(input, grad_enabled) ==
    [val |-> ForwardValue(heap[model], input),
     fn |-> IF grad_enabled THEN model ELSE 0,
     saved |-> IF grad_enabled THEN [params |-> heap[model].params, data |-> input.data, ids |-> input.ids]
               ELSE NoSaved]

\* logits = model(images) / logps = model(images) / output = model.forward(images)
Forward(from, to, target) ==
    /\ pc = from
    /\ model # 0
    /\ images.shape = <<Len(images.data), heap[model].layers[1].in>>
    /\ logits' = IF target = "logits" THEN ForwardTensor(images, TRUE) ELSE logits
    /\ logps' = IF target = "logps" THEN ForwardTensor(images, TRUE) ELSE logps
    /\ output' = IF target = "output" THEN ForwardTensor(images, TRUE) ELSE output
    /\ log' = Append(log, Event("forward", images.ids))
    /\ pc' = to
    /\ UNCHANGED <<trainloader, heap, model, criterion, optimizer, images,
                   labels, loss, x, y, z, e, running_loss, it, img, ps, seen,
                   nsteps, ce>>
    /\ UNCHANGED <<nbackward, pending>>

\* The tensor criterion(out, labels) returns.
LossTensor(out) ==
    [val |-> Criterion(criterion, out.val, labels),
     fn |-> out.fn,
     term |-> [params |-> out.saved.params, data |-> out.saved.data, labels |-> labels, ids |-> out.saved.ids],
     freed |-> FALSE]

Named(name) == IF name = "logits" THEN logits ELSE IF name = "logps" THEN logps ELSE output

\* loss = criterion(logits, labels) / (logps, labels) / (output, labels)
Loss(from, to, src) ==
    /\ pc = from
    /\ criterion # ""
    /\ Len(Named(src).val) = Len(labels)
    /\ loss' = LossTensor(Named(src))
    /\ log' = Append(log, Event("loss", Named(src).saved.ids))
    /\ pc' = to
    /\ UNCHANGED <<trainloader, heap, model, criterion, optimizer, images,
                   labels, logits, logps, output, x, y, z, e, running_loss, it,
                   img, ps, seen, nsteps, ce>>
    /\ UNCHANGED <<nbackward, pending>>

\* backward frees the buffers of the graph it walked: those of the loss and
\* of the model output the loss was computed from.
FreeGraph(t) ==
    IF t.fn = loss.fn /\ t.saved = [params |-> loss.term.params, data |-> loss.term.data, ids |-> loss.term.ids]
    THEN [t EXCEPT !.saved = NoSaved] ELSE t

\* loss.backward(): needs a graph that has not been freed by an earlier
\* backward; it then frees the graph.
Backward(from, to) ==
    /\ pc = from
    /\ loss.fn # 0 /\ ~loss.freed
    /\ heap' = [heap EXCEPT ![loss.fn] = BackwardModel(heap[loss.fn], loss.term)]
    /\ loss' = [loss EXCEPT !.freed = TRUE, !.term = NoTerm]
    /\ nbackward' = nbackward + 1
    /\ pending' = [pending EXCEPT ![loss.fn] = Append(pending[loss.fn], loss.term)]
    /\ logits' = FreeGraph(logits)
    /\ logps' = FreeGraph(logps)
    /\ output' = FreeGraph(output)
    /\ log' = Append(log, Event("backward", loss.term.ids))
    /\ pc' = to
    /\ UNCHANGED <<trainloader, model, criterion, optimizer, images, labels,
                   x, y, z, e, running_loss, it, img, ps, seen, nsteps, ce>>

\* optimizer = optim.SGD(model.parameters(), lr=...)
MakeOptimizer(from, to, lr) ==
    /\ pc = from
    /\ model # 0
    /\ optimizer' = [params |-> model, lr |-> lr]
    /\ heap' = Live(heap, GraphRoots \cup {model})
    /\ pending' = LivePending(GraphRoots \cup {model})
    /\ UNCHANGED nbackward
    /\ pc' = to
    /\ UNCHANGED <<trainloader, model, criterion, images, labels, logits,
                   logps, output, loss, x, y, z, e, running_loss, it, img, ps,
                   log, seen, nsteps, ce>>

\* optimizer.zero_grad()
ZeroGrad(from, to) ==
    /\ pc = from
    /\ optimizer.params # 0
    /\ heap' = [heap EXCEPT ![optimizer.params] = ZeroGradModel(heap[optimizer.params])]
    /\ log' = Append(log, Event("zero_grad", images.ids))
    /\ pending' = [pending EXCEPT ![optimizer.params] = <<>>]
    /\ UNCHANGED nbackward
    /\ pc' = to
    /\ UNCHANGED <<trainloader, model, criterion, optimizer, images, labels,
                   logits, logps, output, loss, x, y, z, e, running_loss, it,
                   img, ps, seen, nsteps, ce>>

\* optimizer.step()
Step(from, to) ==
    /\ pc = from
    /\ optimizer.params # 0
    /\ \E k \in 1..NumInits :
        heap' = [heap EXCEPT ![optimizer.params] = SGDStep(heap[optimizer.params], k)]
    /\ log' = Append(log, Event("step", images.ids))
    /\ nsteps' = nsteps + 1
    /\ seen' = [s \in Samples |-> seen[s] + (IF \E r \in 1..Len(images.ids) : images.ids[r] = s THEN 1 ELSE 0)]
    /\ pc' = to
    /\ UNCHANGED <<trainloader, model, criterion, optimizer, images, labels,
                   logits, logps, output, loss, x, y, z, e, running_loss, it,
                   img, ps, ce>>
    /\ UNCHANGED <<nbackward, pending>>

\* print(...): the cell's output is not part of the state
PrintStmt(from, to) ==
    /\ pc = from
    /\ pc' = to
    /\ UNCHANGED <<trainloader, heap, model, criterion, optimizer, images,
                   labels, logits, logps, output, loss, x, y, z, e,
                   running_loss, it, img, ps, log, seen, nsteps, ce>>
    /\ UNCHANGED <<nbackward, pending>>

\* line 148, print(loss) of the CrossEntropyLoss cell: remember what the
\* cell computed, and from what
PrintCELoss(from, to) ==
    /\ pc = from
    /\ ce' = [params |-> heap[model].params, data |-> images.data, labels |-> labels, loss |-> loss.val]
    /\ pc' = to
    /\ UNCHANGED <<trainloader, heap, model, criterion, optimizer, images,
                   labels, logits, logps, output, loss, x, y, z, e,
                   running_loss, it, img, ps, log, seen, nsteps>>
    /\ UNCHANGED <<nbackward, pending>>

(***************************************************************************)
(* The autograd cells, lines 261-418.                                      *)
(***************************************************************************)
\* x = torch.randn(2,2, requires_grad=True)
XRandn(from, to) ==
    /\ pc = from
    /\ \E k \in 1..NumInits : x' = [data |-> Randn(k), grad |-> None, requires_grad |-> TRUE]
    /\ pc' = to
    /\ UNCHANGED <<trainloader, heap, model, criterion, optimizer, images,
                   labels, logits, logps, output, loss, y, z, e,
                   running_loss, it, img, ps, log, seen, nsteps, ce>>
    /\ UNCHANGED <<nbackward, pending>>

\* y = x**2
YSquare(from, to) ==
    /\ pc = from
    /\ y' = [data |-> Square(x.data), fn |-> "PowBackward0", freed |-> FALSE]
    /\ pc' = to
    /\ UNCHANGED <<trainloader, heap, model, criterion, optimizer, images,
                   labels, logits, logps, output, loss, x, z, e,
                   running_loss, it, img, ps, log, seen, nsteps, ce>>
    /\ UNCHANGED <<nbackward, pending>>

\* z = y.mean()
ZMean(from, to) ==
    /\ pc = from
    /\ z' = [data |-> Mean(y.data), fn |-> "MeanBackward1", freed |-> FALSE]
    /\ pc' = to
    /\ UNCHANGED <<trainloader, heap, model, criterion, optimizer, images,
                   labels, logits, logps, output, loss, x, y, e,
                   running_loss, it, img, ps, log, seen, nsteps, ce>>
    /\ UNCHANGED <<nbackward, pending>>

\* z.backward()
ZBackward(from, to) ==
    /\ pc = from
    /\ z.fn # "" /\ ~z.freed /\ x.requires_grad
    /\ x' = [x EXCEPT !.grad = AccumulateLeaf(x.grad, MeanSquareGrad(x.data))]
    /\ z' = [z EXCEPT !.freed = TRUE]
    /\ pc' = to
    /\ UNCHANGED <<trainloader, heap, model, criterion, optimizer, images,
                   labels, logits, logps, output, loss, y, e,
                   running_loss, it, img, ps, log, seen, nsteps, ce>>
    /\ UNCHANGED <<nbackward, pending>>

(***************************************************************************)
(* The training loop, lines 689-711.                                       *)
(***************************************************************************)
\* A faulty variant: the optimizer steps before the backward pass.
TrainingPassStepFirst == <<"tr_zero_grad", "tr_forward", "tr_loss", "tr_step", "tr_backward">>

\* The body of the loop after the flattening, lines 698-703, in order.
TrainingPass == <<"tr_zero_grad", "tr_forward", "tr_loss", "tr_backward", "tr_step">>

\* The program point after point l of the training pass; line 709 follows
\* the pass.
RECURSIVE IndexOf(_, _, _)
IndexOf(seq, l, i) == IF i > Len(seq) THEN 0 ELSE IF seq[i] = l THEN i ELSE IndexOf(seq, l, i + 1)
After(l) ==
    LET i == IndexOf(TrainingPass, l, 1)
    IN  IF i = Len(TrainingPass) THEN "tr_running_loss" ELSE TrainingPass[i + 1]

\* A faulty variant: the loop over the epochs runs once too often.
MoreEpochsOffByOne(cur) == cur + 1 <= epochs

\* whether range(epochs) yields another value after e
MoreEpochs(cur) == cur + 1 < epochs

\* epochs = 5
SetEpochs(from, to) ==
    /\ pc = from
    /\ e' = -1
    /\ nsteps' = 0
    /\ pc' = to
    /\ UNCHANGED <<trainloader, heap, model, criterion, optimizer, images,
                   labels, logits, logps, output, loss, x, y, z,
                   running_loss, it, img, ps, log, seen, ce>>
    /\ UNCHANGED <<nbackward, pending>>

\* for e in range(epochs): running_loss = 0, and the inner for statement
\* takes a fresh iterator of the shuffling trainloader
ForEpoch ==
    /\ pc = "tr_for_e"
    /\ IF MoreEpochs(e)
       THEN /\ e' = e + 1
            /\ running_loss' = <<>>
            /\ \E p \in Perms : it' = p
            /\ seen' = [s \in Samples |-> 0]
            /\ pc' = "tr_for_batch"
       ELSE /\ pc' = "pr_batch"
            /\ UNCHANGED <<e, running_loss, it, seen>>
    /\ UNCHANGED <<trainloader, heap, model, criterion, optimizer, images,
                   labels, logits, logps, output, loss, x, y, z, img, ps,
                   log, nsteps, ce>>
    /\ UNCHANGED <<nbackward, pending>>

\* for images, labels in trainloader: the next batch_size samples, or the
\* else clause when the iterator is exhausted
ForBatch ==
    /\ pc = "tr_for_batch"
    /\ IF it # <<>>
       THEN /\ images' = RawImages(Take(it, trainloader.batch_size))
            /\ labels' = LabelsOf(Take(it, trainloader.batch_size))
            /\ it' = Drop(it, trainloader.batch_size)
            /\ log' = <<>>
            /\ pc' = "tr_view"
       ELSE /\ pc' = "tr_print"
            /\ UNCHANGED <<images, labels, it, log>>
    /\ UNCHANGED <<trainloader, heap, model, criterion, optimizer, logits,
                   logps, output, loss, x, y, z, e, running_loss, img, ps,
                   seen, nsteps, ce>>
    /\ UNCHANGED <<nbackward, pending>>

\* running_loss += loss.item()
RunningLoss ==
    /\ pc = "tr_running_loss"
    /\ running_loss' = Append(running_loss, loss.val)
    /\ pc' = "tr_for_batch"
    /\ UNCHANGED <<trainloader, heap, model, criterion, optimizer, images,
                   labels, logits, logps, output, loss, x, y, z, e, it, img,
                   ps, log, seen, nsteps, ce>>
    /\ UNCHANGED <<nbackward, pending>>

(***************************************************************************)
(* The prediction cell, lines 749-758.                                     *)
(***************************************************************************)
\* img = images[0].view(1, 784)
FirstImage ==
    /\ pc = "pr_view"
    /\ img' = [shape |-> <<1, InDim>>, data |-> <<images.data[1]>>, ids |-> <<images.ids[1]>>]
    /\ pc' = "pr_forward"
    /\ UNCHANGED <<trainloader, heap, model, criterion, optimizer, images,
                   labels, logits, logps, output, loss, x, y, z, e,
                   running_loss, it, ps, log, seen, nsteps, ce>>
    /\ UNCHANGED <<nbackward, pending>>

\* with torch.no_grad(): logits = model.forward(img)
Predict ==
    /\ pc = "pr_forward"
    /\ model # 0
    /\ img.shape = <<Len(img.data), heap[model].layers[1].in>>
    /\ logits' = ForwardTensor(img, FALSE)
    /\ pc' = "pr_softmax"
    /\ UNCHANGED <<trainloader, heap, model, criterion, optimizer, images,
                   labels, logps, output, loss, x, y, z, e, running_loss, it,
                   img, ps, log, seen, nsteps, ce>>
    /\ UNCHANGED <<nbackward, pending>>

\* ps = F.softmax(logits, dim=1)
SoftmaxPs ==
    /\ pc = "pr_softmax"
    /\ ps' = Softmax(logits.val, 1)
    /\ pc' = "done"
    /\ UNCHANGED <<trainloader, heap, model, criterion, optimizer, images,
                   labels, logits, logps, output, loss, x, y, z, e,
                   running_loss, it, img, log, seen, nsteps, ce>>
    /\ UNCHANGED <<nbackward, pending>>

(***************************************************************************)
(* The notebook from the autograd cells on: lines 86-97 and 261-758.  The  *)
(* two loss cells before them (SpecLoss) bind only names that line 448 on  *)
(* rebinds before reading, and logps, which nothing reads.                 *)
(***************************************************************************)
Init == pc = "load_data" /\ Fresh

LR1 == <<1, 100>>
LR2 == <<3, 1000>>

Next ==
    \/ LoadData
    \/ XRandn("loaded", "y_pow")
    \/ YSquare("y_pow", "z_mean")
    \/ ZMean("z_mean", "x_print_grad")
    \/ PrintStmt("x_print_grad", "z_backward")
    \/ ZBackward("z_backward", "ag_build")
    \/ BuildModel("ag_build", "ag_batch", LogProbLayers, "NLLLoss")
    \/ FirstBatch("ag_batch", "ag_view")
    \/ FlattenImages("ag_view", "ag_forward")
    \/ Forward("ag_forward", "ag_loss", "logits")
    \/ Loss("ag_loss", "ag_print_before", "logits")
    \/ PrintStmt("ag_print_before", "ag_backward")
    \/ Backward("ag_backward", "ag_print_after")
    \/ PrintStmt("ag_print_after", "ag_optimizer")
    \/ MakeOptimizer("ag_optimizer", "ss_batch", LR1)
    \/ FirstBatch("ss_batch", "ss_resize")
    \/ ResizeImages("ss_resize", "ss_zero_grad")
    \/ ZeroGrad("ss_zero_grad", "ss_forward")
    \/ Forward("ss_forward", "ss_loss", "output")
    \/ Loss("ss_loss", "ss_backward", "output")
    \/ Backward("ss_backward", "ss_print_grad")
    \/ PrintStmt("ss_print_grad", "ss_step")
    \/ Step("ss_step", "tr_build")
    \/ BuildModel("tr_build", "tr_optimizer", LogProbLayers, "NLLLoss")
    \/ MakeOptimizer("tr_optimizer", "tr_epochs", LR2)
    \/ SetEpochs("tr_epochs", "tr_for_e")
    \/ ForEpoch
    \/ ForBatch
    \/ FlattenImages("tr_view", TrainingPass[1])
    \/ ZeroGrad("tr_zero_grad", After("tr_zero_grad"))
    \/ Forward("tr_forward", After("tr_forward"), "output")
    \/ Loss("tr_loss", After("tr_loss"), "output")
    \/ Backward("tr_backward", After("tr_backward"))
    \/ Step("tr_step", After("tr_step"))
    \/ RunningLoss
    \/ PrintStmt("tr_print", "tr_for_e")
    \/ FirstBatch("pr_batch", "pr_view")
    \/ FirstImage
    \/ Predict
    \/ SoftmaxPs

Spec == Init /\ [][Next]_vars

(***************************************************************************)
(* The two loss cells: lines 86-97 and 128-215.                            *)
(***************************************************************************)
NextLoss ==
    \/ LoadData
    \/ BuildModel("loaded", "ce_batch", LogitLayers, "CrossEntropyLoss")
    \/ FirstBatch("ce_batch", "ce_view")
    \/ FlattenImages("ce_view", "ce_forward")
    \/ Forward("ce_forward", "ce_loss", "logits")
    \/ Loss("ce_loss", "ce_print", "logits")
    \/ PrintCELoss("ce_print", "nll_build")
    \/ BuildModel("nll_build", "nll_batch", LogProbLayers, "NLLLoss")
    \/ FirstBatch("nll_batch", "nll_view")
    \/ FlattenImages("nll_view", "nll_forward")
    \/ Forward("nll_forward", "nll_loss", "logps")
    \/ Loss("nll_loss", "nll_print", "logps")
    \/ PrintStmt("nll_print", "loss_done")

SpecLoss == Init /\ [][NextLoss]_vars

(***************************************************************************)
(* The single-step cell run again and again, with or without its           *)
(* optimizer.zero_grad() line: lines 86-97, 448-527 and then 583-605       *)
(* repeated.  This is the case the text before the cell warns about:       *)
(* "When you do multiple backwards passes with the same parameters, the    *)
(* gradients are accumulated."                                             *)
(***************************************************************************)
\* the cell is run once more
RunCellAgain(from, to) ==
    /\ pc = from
    /\ nbackward < MaxPasses
    /\ pc' = to
    /\ UNCHANGED <<trainloader, heap, model, criterion, optimizer, images,
                   labels, logits, logps, output, loss, x, y, z, e,
                   running_loss, it, img, ps, log, seen, nsteps, ce,
                   nbackward, pending>>

\* the cell without its line 600
OmitZeroGrad(from, to) ==
    /\ pc = from
    /\ pc' = to
    /\ UNCHANGED <<trainloader, heap, model, criterion, optimizer, images,
                   labels, logits, logps, output, loss, x, y, z, e,
                   running_loss, it, img, ps, log, seen, nsteps, ce,
                   nbackward, pending>>

NextAccum ==
    \/ LoadData
    \/ BuildModel("loaded", "ag_batch", LogProbLayers, "NLLLoss")
    \/ FirstBatch("ag_batch", "ag_view")
    \/ FlattenImages("ag_view", "ag_forward")
    \/ Forward("ag_forward", "ag_loss", "logits")
    \/ Loss("ag_loss", "ag_backward", "logits")
    \/ Backward("ag_backward", "ag_optimizer")
    \/ MakeOptimizer("ag_optimizer", "ss_batch", LR1)
    \/ FirstBatch("ss_batch", "ss_resize")
    \/ ResizeImages("ss_resize", "ss_zero_grad")
    \/ ZeroGrad("ss_zero_grad", "ss_forward")
    \/ OmitZeroGrad("ss_zero_grad", "ss_forward")
    \/ Forward("ss_forward", "ss_loss", "output")
    \/ Loss("ss_loss", "ss_backward", "output")
    \/ Backward("ss_backward", "ss_print_grad")
    \/ RunCellAgain("ss_print_grad", "ss_batch")

SpecAccum == Init /\ [][NextAccum]_vars

(***************************************************************************)
(* The claims.                                                             *)
(***************************************************************************)
OpsOf(l) == [i \in 1..Len(l) |-> l[i].op]
IsPrefix(a, b) == Len(a) <= Len(b) /\ \A i \in 1..Len(a) : a[i] = b[i]
PassOrder == <<"zero_grad", "forward", "loss", "backward", "step">>
InBatch == pc \in {"tr_view", "tr_zero_grad", "tr_forward", "tr_loss", "tr_backward", "tr_step", "tr_running_loss"}
AfterLoop == pc \in {"pr_batch", "pr_view", "pr_forward", "pr_softmax", "done"}

\* C1: in the training loop the operations on a batch run in the order
\* zero_grad, forward, loss, backward, step, all on that batch: what has run
\* on the current batch is always a prefix of that order (so a step has the
\* backward pass of the batch's loss before it, and a backward pass has the
\* forward pass and the loss of the batch before it), and when the batch is
\* done all five have run.
C1_TrainingPassOrder ==
    InBatch =>
        /\ IsPrefix(OpsOf(log), PassOrder)
        /\ \A i \in 1..Len(log) : log[i].ids = images.ids
        /\ (pc = "tr_running_loss" => OpsOf(log) = PassOrder)

C1_Witness ==
    /\ pc = "tr_running_loss" /\ e = epochs - 1 /\ it = <<>>
    /\ OpsOf(log) = PassOrder

\* the pass the model named by the optimizer would record on the current batch
CurrentTerm ==
    [params |-> heap[optimizer.params].params, data |-> images.data, labels |-> labels, ids |-> images.ids]

\* C2: whenever optimizer.step() is about to run (line 638 of the
\* single-step cell, line 703 of the loop), the gradient of every parameter
\* the optimizer holds is the gradient of the current batch's loss alone.
C2_GradOfCurrentBatchOnly ==
    pc \in {"ss_step", "tr_step"} =>
        \A p \in DOMAIN heap[optimizer.params].grad :
            heap[optimizer.params].grad[p] =
                Some([shape |-> ShapeOf(heap[optimizer.params].layers, p), terms |-> SetToBag({CurrentTerm})])

C2_Witness ==
    /\ pc = "tr_step" /\ nsteps >= 1 /\ nbackward >= 3
    /\ \A p \in DOMAIN heap[optimizer.params].grad :
           heap[optimizer.params].grad[p][1].terms = SetToBag({CurrentTerm})

\* C3: every epoch steps exactly once on every sample of the training set,
\* one step per batch, and the loop ends after epochs * len(trainloader)
\* steps.
C3_OneStepPerBatch ==
    /\ (pc = "tr_running_loss" => Cardinality({i \in 1..Len(log) : log[i].op = "step"}) = 1)
    /\ (pc = "tr_print" => \A s \in Samples : seen[s] = 1)
    /\ (pc = "tr_print" => nsteps = (e + 1) * LenTrainloader)
    /\ (AfterLoop => nsteps = epochs * LenTrainloader)

C3_Witness == pc = "done" /\ nsteps = epochs * LenTrainloader /\ e = epochs - 1

RECURSIVE TermsOf(_)
TermsOf(q) == IF q = <<>> THEN EmptyBag ELSE SetToBag({q[Len(q)]}) (+) TermsOf(SubSeq(q, 1, Len(q) - 1))

C6_OutputIsRawLogits ==
    pc \in {"pr_softmax", "done"} => logits.val = RawLogits(heap[model], img)

\* C7: for the same weights, images and labels, the loss of the
\* CrossEntropyLoss cell (raw scores) equals the loss of the LogSoftmax +
\* NLLLoss cell.
SameInputs == ce.params = heap[model].params /\ ce.data = images.data /\ ce.labels = labels
C7_CrossEntropyIsLogSoftmaxNLL ==
    (pc \in {"nll_print", "loss_done"} /\ SameInputs) => ce.loss = loss.val

C7_Witness ==
    /\ pc = "loss_done" /\ SameInputs /\ ce.loss = loss.val
    /\ criterion = "NLLLoss" /\ loss.val.P # <<1, 1>>

SameShape(A, B) == Len(A) = Len(B) /\ \A i \in 1..Len(A) : Len(A[i]) = Len(B[i])
Weight0 == <<1, "weight">>

\* C8: x.grad is None once y and z are computed and before z.backward();
\* model[0].weight.grad of the freshly built model is None after the forward
\* pass and the loss and before loss.backward(); after the backward pass each
\* is a tensor of the shape of its tensor.
C8_GradNoneUntilBackward ==
    /\ (pc \in {"x_print_grad", "z_backward"} => x.grad = None)
    /\ (pc = "ag_build" => x.grad # None /\ SameShape(x.grad[1], x.data))
    /\ (pc \in {"ag_print_before", "ag_backward"} => heap[model].grad[Weight0] = None)
    /\ (pc = "ag_print_after" =>
            /\ heap[model].grad[Weight0] # None
            /\ heap[model].grad[Weight0][1].shape =
                   <<Len(heap[model].params[1].weight), Len(heap[model].params[1].weight[1])>>)

C8_Witness ==
    /\ pc = "ag_print_after"
    /\ x.grad # None /\ x.grad[1] # x.data
    /\ heap[model].grad[Weight0] # None
    /\ heap[model].grad[Weight0][1].terms # EmptyBag

=============================================================================
